---- MODULE Spec2Model ----
(***************************************************************************)
(* Paper / paper-version lifecycle of the paper-management backend         *)
(* (app/api/v1/endpoints/papers.py, app/services/oss.py).                   *)
(*                                                                         *)
(* Every HTTP request is one process slot of `req`.  A handler is split    *)
(* into the steps between which another request can run: file validation, *)
(* the SELECTs it issues, the blob write, and the database transaction     *)
(* (its write statements up to commit / rollback).  Writes of one          *)
(* transaction become visible to other requests at commit only, so the     *)
(* statements of a transaction and its commit are one step; which          *)
(* statement fails, if any, is a nondeterministic input of that step.      *)
(***************************************************************************)
EXTENDS Integers, FiniteSets, Sequences, TLC

\* ---------------------------------------------------------------- bounds
MaxPapers == 2      \* auto-increment ids papers.id may take
MaxClock == 2       \* seconds the wall clock may show (1..MaxClock)
MaxCalls == 3       \* requests started in one behaviour
MaxMessages == 2    \* auto-increment ids user_messages.id may take
MaxNCalls == 3      \* notification requests started in one behaviour
MaxTemplates == 2   \* templates created in one behaviour
MaxTCalls == 6      \* template requests started in one behaviour

\* ------------------------------------------------------------- constants
NULL == -1                          \* SQL NULL / Python None
MockUser == 1                       \* current_user = {"sub": 1}
MaxBytes == 100 * 1024 * 1024       \* size ceiling of an uploaded file
InitialVersion == "v1.0"

Procs == {1, 2}                     \* requests in flight at the same time
Users == {1, 2}                     \* caller ids ("sub")
PaperIds == 1..MaxPapers
Versions == {"v1.0", "v2.0", "v3.0"}
Filenames == {"thesis.docx", "THESIS.DOCX", "thesis.pdf"}
Sizes == {0, MaxBytes, MaxBytes + 1}
Statuses == {"ok", "failed"}
PayloadSizes == {NULL, 5}           \* payload.size: None or a number
FailPoints == {"none", "stmt1", "stmt2", "commit"}

VARIABLES
    papers,          \* committed rows of table papers
    paper_versions,  \* committed rows of table paper_versions
    nextPaperId,     \* AUTO_INCREMENT of papers.id
    nextVersionId,   \* AUTO_INCREMENT of paper_versions.id
    blobs,           \* keys of the files under doc/essay
    nextKey,         \* next fresh storage key
    clock,           \* datetime.now(), in seconds
    calls,           \* requests started so far
    req,             \* per slot: the request being handled and its locals
    user_messages,   \* committed rows of table user_messages
    nextMessageId,   \* AUTO_INCREMENT of user_messages.id
    ncalls,          \* notification requests started so far
    nreq,            \* per slot: the notification request being handled
    templates,       \* committed rows of table templates
    template_files,  \* keys of the files under doc/template
    nextTemplate,    \* next fresh template_id and next fresh file key
    tcalls,          \* template requests started so far
    treq             \* per slot: the template request being handled

nvars == <<user_messages, nextMessageId, ncalls, nreq>>
tvars == <<templates, template_files, nextTemplate, tcalls, treq>>

vars == <<papers, paper_versions, nextPaperId, nextVersionId, blobs, nextKey,
          clock, calls, req, nvars, tvars>>

\* ------------------------------------------------------------ request slots
NoRet == [id |-> NULL, owner_id |-> NULL, latest_version |-> "", oss_key |-> NULL]
NoStatusRet == [paper_id |-> NULL, version |-> "", status |-> "", size |-> NULL]

Idle == [op |-> "idle", pc |-> "idle", sub |-> NULL, paper_id |-> NULL,
         version |-> "", filename |-> "", size |-> 0,
         status |-> "", psize |-> NULL,
         oss_key |-> NULL, now |-> NULL, row_size |-> NULL,
         code |-> 0, ret |-> NoRet, sret |-> NoStatusRet, listing |-> <<>>]

Free(p) == req[p].pc \in {"idle", "done"}

\* A new request takes the lowest free slot (slots are interchangeable).
Slot(p) == Free(p) /\ \A q \in Procs : q < p => ~Free(q)

\* The handler returns or raises HTTPException(code): its locals are gone,
\* the slot keeps what the response and the caller's request line carry.
Finish(r, code) ==
    [r EXCEPT !.pc = "done", !.code = code, !.filename = "", !.size = 0,
              !.status = "", !.psize = NULL, !.now = NULL, !.row_size = NULL]

\* First step of a handler that validates its file before anything else.
Begin(r, code, pc) == IF code = 200 THEN [r EXCEPT !.pc = pc] ELSE Finish(r, code)

\* ------------------------------------------------------------- relational store
DB == [papers |-> papers, versions |-> paper_versions]

PaperExistsIn(ps, pid) == \E r \in ps : r.id = pid
PaperRowIn(ps, pid) == CHOOSE r \in ps : r.id = pid
PaperExists(pid) == PaperExistsIn(papers, pid)
PaperRow(pid) == PaperRowIn(papers, pid)

VersionsOf(vs, pid) == {r \in vs : r.paper_id = pid}
VersionRows(vs, pid, ver) == {r \in vs : r.paper_id = pid /\ r.version = ver}

\* (paper_versions without its unique index: no INSERT is refused)
DuplicateKey_NoIndex(vs, pid, ver) == FALSE

\* UNIQUE (paper_id, version) on paper_versions: an INSERT of an existing pair
\* raises IntegrityError.
DuplicateKey(vs, pid, ver) == VersionRows(vs, pid, ver) # {}

\* FOREIGN KEY paper_versions.paper_id -> papers.id: an INSERT for a paper
\* that does not exist raises IntegrityError.
ForeignKeyOk(ps, pid) == PaperExistsIn(ps, pid)

\* (the foreign key without ON DELETE CASCADE and unenforced: the rows stay)
CascadeDelete_None(vs, pid) == vs

\* ... ON DELETE CASCADE: deleting a paper deletes its version rows.
CascadeDelete(vs, pid) == {r \in vs : r.paper_id # pid}

InsertVersionError(d, pid, ver) ==
    DuplicateKey(d.versions, pid, ver) \/ ~ForeignKeyOk(d.papers, pid)

InsertPaper(d, id, owner, ver, key, now) ==
    [d EXCEPT !.papers = @ \cup {[id |-> id, owner_id |-> owner,
                                  latest_version |-> ver, oss_key |-> key,
                                  created_at |-> now, updated_at |-> now]}]

\* (the UPDATE with latest_version left out of its SET list)
UpdatePaperRow_KeyOnly(d, pid, ver, key, now) ==
    [d EXCEPT !.papers = {IF r.id = pid
                          THEN [r EXCEPT !.oss_key = key, !.updated_at = now]
                          ELSE r : r \in @}]

\* (the UPDATE also writing owner_id, with the fixed identity)
UpdatePaperRow_Reassign(d, pid, ver, key, now) ==
    [d EXCEPT !.papers = {IF r.id = pid
                          THEN [r EXCEPT !.latest_version = ver, !.oss_key = key,
                                         !.updated_at = now, !.owner_id = MockUser]
                          ELSE r : r \in @}]

UpdatePaperRow(d, pid, ver, key, now) ==
    [d EXCEPT !.papers = {IF r.id = pid
                          THEN [r EXCEPT !.latest_version = ver, !.oss_key = key,
                                         !.updated_at = now]
                          ELSE r : r \in @}]

\* (REPLACE semantics per paper: the new row takes the place of the paper's
\* other rows)
InsertVersion_ReplaceAll(d, row) ==
    [d EXCEPT !.versions = {v \in @ : v.paper_id # row.paper_id} \cup {row}]

\* (the INSERT with a trigger that marks the paper's other rows superseded)
InsertVersion_Supersede(d, row) ==
    [d EXCEPT !.versions =
        {IF v.paper_id = row.paper_id THEN [v EXCEPT !.status = "superseded"]
         ELSE v : v \in @} \cup {row}]

InsertVersion(d, row) == [d EXCEPT !.versions = @ \cup {row}]

\* (a connection in autocommit mode: rollback undoes nothing)
Rollback_Autocommit(committed, uncommitted) == uncommitted

\* db.rollback(): every statement executed since the last commit is undone.
Rollback(committed, uncommitted) == committed

\* -------------------------------------------------------------------- files
\* file.filename.lower().endswith(".docx")
IsDocx(filename) == filename \in {"thesis.docx", "THESIS.DOCX"}

\* upload_paper_to_storage: writes the bytes under a fresh timestamped name.
StoreBlob(bs, key) == bs \cup {key}

\* ------------------------------------------- notification / template slots
NIdle == [op |-> "idle", pc |-> "idle", nid |-> NULL, tid |-> "None",
          tids |-> <<>>, title |-> "", clen |-> 0, meta |-> NULL,
          code |-> 0, count |-> NULL, ids |-> <<>>]

TIdle == [op |-> "idle", pc |-> "idle", tid |-> NULL, key |-> NULL,
          old_key |-> NULL, code |-> 0]

\* ------------------------------------------------------------------ Init
Init ==
    /\ papers = {}
    /\ paper_versions = {}
    /\ nextPaperId = 1
    /\ nextVersionId = 1
    /\ blobs = {}
    /\ nextKey = 1
    /\ clock = 1
    /\ calls = 0
    /\ req = [p \in Procs |-> Idle]
    /\ user_messages = {}
    /\ nextMessageId = 1
    /\ ncalls = 0
    /\ nreq = [p \in Procs |-> NIdle]
    /\ templates = {}
    /\ template_files = {}
    /\ nextTemplate = [id |-> 1, key |-> 1]
    /\ tcalls = 0
    /\ treq = [p \in Procs |-> TIdle]

Tick ==
    /\ clock < MaxClock
    /\ clock' = clock + 1
    /\ UNCHANGED <<nvars, tvars, papers, paper_versions, nextPaperId, nextVersionId, blobs,
                   nextKey, calls, req>>

\* ----------------------------------------------------------- upload_paper
\* The checks of upload_paper before anything is stored: 200 stands for
\* "passed".
UploadValidation(filename, size) ==
    IF ~IsDocx(filename) THEN 400
    ELSE IF size > MaxBytes THEN 400
    ELSE 200

\* upload_paper up to the blob write: the extension and size checks.
UploadValidate(p) ==
    /\ Slot(p) /\ calls < MaxCalls /\ nextPaperId <= MaxPapers
    /\ \E u \in Users, f \in Filenames, s \in Sizes :
          req' = [req EXCEPT ![p] =
                    Begin([Idle EXCEPT !.op = "upload_paper", !.sub = u,
                                       !.filename = f, !.size = s],
                          UploadValidation(f, s), "store")]
    /\ calls' = calls + 1
    /\ UNCHANGED <<nvars, tvars, papers, paper_versions, nextPaperId, nextVersionId, blobs,
                   nextKey, clock>>

\* oss_key = upload_paper_to_storage(...); now = datetime.now()
StoreStep(p, op, next) ==
    /\ req[p].op = op /\ req[p].pc = "store"
    /\ blobs' = StoreBlob(blobs, nextKey)
    /\ nextKey' = nextKey + 1
    /\ req' = [req EXCEPT ![p] = [@ EXCEPT !.pc = next, !.oss_key = nextKey,
                                            !.now = clock]]
    /\ UNCHANGED <<nvars, tvars, papers, paper_versions, nextPaperId, nextVersionId, clock, calls>>

UploadStore(p) == StoreStep(p, "upload_paper", "tx")

\* The caller's identity is the current_user JSON of the request: its sub,
\* its username (absent for some callers) and its list of roles.
UserName(sub) == IF sub = 1 THEN "student1" ELSE ""
UserRoles(sub) == IF sub = 1 THEN <<"student">> ELSE <<"teacher", "admin">>

\* ",".join([str(r) for r in roles]): the roles with a "," between two
\* neighbours, as the sequence of the pieces of the string.
RECURSIVE SubmitterRole(_)
SubmitterRole(roles) ==
    IF roles = <<>> THEN <<>>
    ELSE IF Len(roles) = 1 THEN <<roles[1]>>
    ELSE <<roles[1], ",">> \o SubmitterRole(Tail(roles))

\* (the first version row written with the status left at "pending" and no
\* size)
FirstVersionRow_Pending(vid, pid, r) ==
    [id |-> vid, paper_id |-> pid, version |-> InitialVersion,
     size |-> 0, created_at |-> r.now, updated_at |-> NULL,
     status |-> "pending", submitted_by_id |-> r.sub,
     submitted_by_name |-> UserName(r.sub),
     submitted_by_role |-> SubmitterRole(UserRoles(r.sub))]

\* The storage key a paper_versions row carries: the column lists of the
\* INSERTs of upload_paper, update_paper and create_paper_status name no
\* storage key, so none is recorded on the row.
VersionKey(row) == NULL

\* The paper_versions row upload_paper inserts.
FirstVersionRow(vid, pid, r) ==
    [id |-> vid, paper_id |-> pid, version |-> InitialVersion,
     size |-> r.size, created_at |-> r.now, updated_at |-> NULL,
     status |-> "ok", submitted_by_id |-> r.sub,
     submitted_by_name |-> UserName(r.sub),
     submitted_by_role |-> SubmitterRole(UserRoles(r.sub))]

\* The two INSERTs of upload_paper and db.commit(), or db.rollback() on
\* MySQLError.
UploadTxResult(d, fail, pid, vid, r) ==
    LET s1 == InsertPaper(d, pid, r.sub, InitialVersion, r.oss_key, r.now)
        row == FirstVersionRow(vid, pid, r)
        s2 == InsertVersion(s1, row)
    IN  IF fail = "stmt1" THEN [db |-> Rollback(d, d), code |-> 500]
        ELSE IF fail = "stmt2" \/ InsertVersionError(s1, pid, InitialVersion)
             THEN [db |-> Rollback(d, s1), code |-> 500]
        ELSE IF fail = "commit" THEN [db |-> Rollback(d, s2), code |-> 500]
        ELSE [db |-> s2, code |-> 200]

UploadTx(p) ==
    /\ req[p].op = "upload_paper" /\ req[p].pc = "tx"
    /\ \E fail \in FailPoints :
         LET out == UploadTxResult(DB, fail, nextPaperId, nextVersionId, req[p])
         IN /\ papers' = out.db.papers
            /\ paper_versions' = out.db.versions
            /\ nextPaperId' = IF out.code = 200 THEN nextPaperId + 1 ELSE nextPaperId
            /\ nextVersionId' = IF out.code = 200 THEN nextVersionId + 1
                                ELSE nextVersionId
            /\ req' = [req EXCEPT ![p] =
                         IF out.code = 200
                         THEN [Finish(@, 200) EXCEPT !.paper_id = nextPaperId,
                                 !.ret = [id |-> nextPaperId,
                                          owner_id |-> req[p].sub,
                                          latest_version |-> InitialVersion,
                                          oss_key |-> req[p].oss_key]]
                         ELSE Finish(@, out.code)]
    /\ UNCHANGED <<nvars, tvars, blobs, nextKey, clock, calls>>

\* ----------------------------------------------------------- update_paper
\* The file checks at the top of update_paper.
UpdateValidation(filename, size) ==
    IF ~IsDocx(filename) THEN 400
    ELSE IF size = 0 THEN 400
    ELSE IF size > MaxBytes THEN 400
    ELSE 200

\* SELECT owner_id FROM papers WHERE id = ...; 404 without a row, 403 when
\* the owner is not the caller.
OwnerCheck(ps, pid, sub) ==
    IF ~PaperExistsIn(ps, pid) THEN 404
    ELSE IF PaperRowIn(ps, pid).owner_id # sub THEN 403
    ELSE 200

\* The steps of update_paper after the file checks, in program order: the
\* owner SELECT with its 404 / 403 exits, then the blob write, then the
\* UPDATE / INSERT transaction.
UpdateOrder_StoreFirst == <<"store", "auth", "tx">>

UpdateOrder == <<"auth", "store", "tx">>

After(order, pc) == order[1 + CHOOSE i \in 1..Len(order) : order[i] = pc]

\* update_paper up to its first SELECT: the extension and size checks.
UpdateValidate(p) ==
    /\ Slot(p) /\ calls < MaxCalls
    /\ \E u \in Users, pid \in PaperIds, v \in Versions, f \in Filenames, s \in Sizes :
          req' = [req EXCEPT ![p] =
                    Begin([Idle EXCEPT !.op = "update_paper", !.sub = u,
                                       !.paper_id = pid, !.version = v,
                                       !.filename = f, !.size = s],
                          UpdateValidation(f, s), UpdateOrder[1])]
    /\ calls' = calls + 1
    /\ UNCHANGED <<nvars, tvars, papers, paper_versions, nextPaperId, nextVersionId, blobs,
                   nextKey, clock>>

UpdateAuth(p) ==
    /\ req[p].op = "update_paper" /\ req[p].pc = "auth"
    /\ LET c == OwnerCheck(papers, req[p].paper_id, req[p].sub)
       IN req' = [req EXCEPT ![p] = Begin(@, c, After(UpdateOrder, "auth"))]
    /\ UNCHANGED <<nvars, tvars, papers, paper_versions, nextPaperId, nextVersionId, blobs,
                   nextKey, clock, calls>>

UpdateStore(p) == StoreStep(p, "update_paper", After(UpdateOrder, "store"))

\* (the row of update_paper written without the submitter columns)
NewVersionRow_NoSnapshot(vid, r) ==
    [id |-> vid, paper_id |-> r.paper_id, version |-> r.version,
     size |-> r.size, created_at |-> r.now, updated_at |-> r.now,
     status |-> "ok", submitted_by_id |-> NULL, submitted_by_name |-> NULL,
     submitted_by_role |-> NULL]

\* The paper_versions row update_paper inserts.
NewVersionRow(vid, r) ==
    [id |-> vid, paper_id |-> r.paper_id, version |-> r.version,
     size |-> r.size, created_at |-> r.now, updated_at |-> r.now,
     status |-> "ok", submitted_by_id |-> r.sub,
     submitted_by_name |-> UserName(r.sub),
     submitted_by_role |-> SubmitterRole(UserRoles(r.sub))]

\* (update_paper committing after its UPDATE, before its INSERT)
UpdateTxResult_CommitAfterUpdate(d, fail, vid, r) ==
    LET s1 == UpdatePaperRow(d, r.paper_id, r.version, r.oss_key, r.now)
        s2 == InsertVersion(s1, NewVersionRow(vid, r))
    IN  IF fail = "stmt1" THEN [db |-> Rollback(d, d), code |-> 500]
        ELSE IF fail = "stmt2" \/ InsertVersionError(s1, r.paper_id, r.version)
             THEN [db |-> Rollback(s1, s1), code |-> 500]
        ELSE IF fail = "commit" THEN [db |-> Rollback(s1, s2), code |-> 500]
        ELSE [db |-> s2, code |-> 200]

\* UPDATE papers ...; INSERT INTO paper_versions ...; db.commit(), or
\* db.rollback() and 500 on MySQLError.
UpdateTxResult(d, fail, vid, r) ==
    LET s1 == UpdatePaperRow(d, r.paper_id, r.version, r.oss_key, r.now)
        s2 == InsertVersion(s1, NewVersionRow(vid, r))
    IN  IF fail = "stmt1" THEN [db |-> Rollback(d, d), code |-> 500]
        ELSE IF fail = "stmt2" \/ InsertVersionError(s1, r.paper_id, r.version)
             THEN [db |-> Rollback(d, s1), code |-> 500]
        ELSE IF fail = "commit" THEN [db |-> Rollback(d, s2), code |-> 500]
        ELSE [db |-> s2, code |-> 200]

UpdateTx(p) ==
    /\ req[p].op = "update_paper" /\ req[p].pc = "tx"
    /\ \E fail \in FailPoints :
         LET out == UpdateTxResult(DB, fail, nextVersionId, req[p])
         IN /\ papers' = out.db.papers
            /\ paper_versions' = out.db.versions
            /\ nextVersionId' = IF out.code = 200 THEN nextVersionId + 1
                                ELSE nextVersionId
            /\ req' = [req EXCEPT ![p] =
                         IF out.code = 200
                         THEN [Finish(@, 200) EXCEPT
                                 !.ret = [id |-> req[p].paper_id,
                                          owner_id |-> req[p].sub,
                                          latest_version |-> req[p].version,
                                          oss_key |-> req[p].oss_key]]
                         ELSE Finish(@, out.code)]
    /\ UNCHANGED <<nvars, tvars, nextPaperId, blobs, nextKey, clock, calls>>

\* ----------------------------------------------------------- delete_paper
\* delete_paper up to its DELETE: the fixed identity and the owner SELECT.
DeleteAuth(p) ==
    /\ Slot(p) /\ calls < MaxCalls
    /\ \E pid \in PaperIds :
          req' = [req EXCEPT ![p] =
                    Begin([Idle EXCEPT !.op = "delete_paper", !.sub = MockUser,
                                       !.paper_id = pid],
                          OwnerCheck(papers, pid, MockUser), "tx")]
    /\ calls' = calls + 1
    /\ UNCHANGED <<nvars, tvars, papers, paper_versions, nextPaperId, nextVersionId, blobs,
                   nextKey, clock>>

\* DELETE FROM papers WHERE id = ...; db.commit()
DeleteTxResult(d, fail, pid) ==
    LET s1 == [papers |-> {r \in d.papers : r.id # pid},
               versions |-> CascadeDelete(d.versions, pid)]
    IN  IF fail = "stmt1" THEN [db |-> Rollback(d, d), code |-> 500]
        ELSE IF fail = "commit" THEN [db |-> Rollback(d, s1), code |-> 500]
        ELSE [db |-> s1, code |-> 200]

DeleteTx(p) ==
    /\ req[p].op = "delete_paper" /\ req[p].pc = "tx"
    /\ \E fail \in FailPoints \ {"stmt2"} :
         LET out == DeleteTxResult(DB, fail, req[p].paper_id)
         IN /\ papers' = out.db.papers
            /\ paper_versions' = out.db.versions
            /\ req' = [req EXCEPT ![p] = Finish(@, out.code)]
    /\ UNCHANGED <<nvars, tvars, nextPaperId, nextVersionId, blobs, nextKey, clock, calls>>

\* ---------------------------------------------------- create_paper_status
\* (create_paper_status without its second SELECT)
CreateStatusCheck_NoVersionCheck(ps, vs, pid, ver) ==
    IF ~PaperExistsIn(ps, pid) THEN 404 ELSE 200

\* The two SELECTs of create_paper_status: 404 without the paper, 409 when
\* the (paper_id, version) row is already there.
CreateStatusCheck(ps, vs, pid, ver) ==
    IF ~PaperExistsIn(ps, pid) THEN 404
    ELSE IF VersionRows(vs, pid, ver) # {} THEN 409
    ELSE 200

CreateStatusSelect(p) ==
    /\ Slot(p) /\ calls < MaxCalls
    /\ \E pid \in PaperIds, v \in Versions, st \in Statuses, sz \in PayloadSizes :
          req' = [req EXCEPT ![p] =
                    Begin([Idle EXCEPT !.op = "create_paper_status",
                                       !.paper_id = pid, !.version = v,
                                       !.status = st, !.psize = sz],
                          CreateStatusCheck(papers, paper_versions, pid, v), "tx")]
    /\ calls' = calls + 1
    /\ UNCHANGED <<nvars, tvars, papers, paper_versions, nextPaperId, nextVersionId, blobs,
                   nextKey, clock>>

\* (size = payload.size, None included)
CreateStatusSize_NoDefault(psize) == psize

\* size = payload.size if payload.size is not None else 0
CreateStatusSize(psize) == IF psize # NULL THEN psize ELSE 0

\* INSERT INTO paper_versions (paper_id, version, size, created_at, status);
\* db.commit(), or db.rollback() and 500 on MySQLError.
CreateStatusTxResult(d, fail, vid, r, now) ==
    LET row == [id |-> vid, paper_id |-> r.paper_id, version |-> r.version,
                size |-> CreateStatusSize(r.psize), created_at |-> now,
                updated_at |-> NULL, status |-> r.status,
                submitted_by_id |-> NULL, submitted_by_name |-> NULL,
                submitted_by_role |-> NULL]
        s1 == InsertVersion(d, row)
    IN  IF fail = "stmt1" \/ InsertVersionError(d, r.paper_id, r.version)
        THEN [db |-> Rollback(d, d), code |-> 500]
        ELSE IF fail = "commit" THEN [db |-> Rollback(d, s1), code |-> 500]
        ELSE [db |-> s1, code |-> 200]

CreateStatusTx(p) ==
    /\ req[p].op = "create_paper_status" /\ req[p].pc = "tx"
    /\ \E fail \in FailPoints \ {"stmt2"} :
         LET out == CreateStatusTxResult(DB, fail, nextVersionId, req[p], clock)
         IN /\ papers' = out.db.papers
            /\ paper_versions' = out.db.versions
            /\ nextVersionId' = IF out.code = 200 THEN nextVersionId + 1
                                ELSE nextVersionId
            /\ req' = [req EXCEPT ![p] =
                         IF out.code = 200
                         THEN [Finish(@, 200) EXCEPT
                                 !.sret = [paper_id |-> req[p].paper_id,
                                           version |-> req[p].version,
                                           status |-> req[p].status,
                                           size |-> CreateStatusSize(req[p].psize)]]
                         ELSE Finish(@, out.code)]
    /\ UNCHANGED <<nvars, tvars, nextPaperId, blobs, nextKey, clock, calls>>

\* ---------------------------------------------------- update_paper_status
\* SELECT size FROM paper_versions WHERE paper_id = ... AND version = ...;
\* row = cursor.fetchone(); 404 without a row.
UpdateStatusSelect(p) ==
    /\ Slot(p) /\ calls < MaxCalls
    /\ \E pid \in PaperIds, v \in Versions, st \in Statuses, sz \in PayloadSizes :
         LET new == [Idle EXCEPT !.op = "update_paper_status", !.paper_id = pid,
                                 !.version = v, !.status = st, !.psize = sz]
             rows == VersionRows(paper_versions, pid, v)
         IN IF rows = {}
            THEN req' = [req EXCEPT ![p] = Finish(new, 404)]
            ELSE \E row \in rows :
                   req' = [req EXCEPT ![p] =
                             [new EXCEPT !.pc = "tx", !.row_size = row.size]]
    /\ calls' = calls + 1
    /\ UNCHANGED <<nvars, tvars, papers, paper_versions, nextPaperId, nextVersionId, blobs,
                   nextKey, clock>>

\* (new_size = row[0] + payload.size: the payload read as an increment)
UpdateStatusSize_Accumulate(psize, row_size) ==
    IF psize # NULL THEN row_size + psize ELSE row_size

\* new_size = payload.size if payload.size is not None else row[0]
UpdateStatusSize(psize, row_size) == IF psize # NULL THEN psize ELSE row_size

\* UPDATE paper_versions SET status, size, updated_at WHERE paper_id = ...
\* AND version = ...; db.commit(), or db.rollback() and 500 on MySQLError.
UpdateStatusTxResult(d, fail, r, now) ==
    LET s1 == [d EXCEPT !.versions =
                 {IF v.paper_id = r.paper_id /\ v.version = r.version
                  THEN [v EXCEPT !.status = r.status,
                                 !.size = UpdateStatusSize(r.psize, r.row_size),
                                 !.updated_at = now]
                  ELSE v : v \in @}]
    IN  IF fail = "stmt1" THEN [db |-> Rollback(d, d), code |-> 500]
        ELSE IF fail = "commit" THEN [db |-> Rollback(d, s1), code |-> 500]
        ELSE [db |-> s1, code |-> 200]

UpdateStatusTx(p) ==
    /\ req[p].op = "update_paper_status" /\ req[p].pc = "tx"
    /\ \E fail \in FailPoints \ {"stmt2"} :
         LET out == UpdateStatusTxResult(DB, fail, req[p], clock)
         IN /\ papers' = out.db.papers
            /\ paper_versions' = out.db.versions
            /\ req' = [req EXCEPT ![p] =
                         IF out.code = 200
                         THEN [Finish(@, 200) EXCEPT
                                 !.sret = [paper_id |-> req[p].paper_id,
                                           version |-> req[p].version,
                                           status |-> req[p].status,
                                           size |-> UpdateStatusSize(req[p].psize,
                                                                     req[p].row_size)]]
                         ELSE Finish(@, out.code)]
    /\ UNCHANGED <<nvars, tvars, nextPaperId, nextVersionId, blobs, nextKey, clock, calls>>

\* ------------------------------------------------------------ list_versions
VersionOut(row) == [version |-> row.version, size |-> row.size,
                    created_at |-> row.created_at, status |-> row.status]

\* SELECT ... FROM paper_versions WHERE paper_id = ... ORDER BY created_at
\* DESC: every order of the paper's rows with created_at descending (the
\* order among rows of equal created_at is the store's choice).
ListVersionsResults(vs, pid) ==
    LET rows == VersionsOf(vs, pid)
        n == Cardinality(rows)
    IN  {[i \in 1..n |-> VersionOut(f[i])] :
           f \in {g \in [1..n -> rows] :
                    /\ \A i, j \in 1..n : i # j => g[i] # g[j]
                    /\ \A i, j \in 1..n : i < j => g[i].created_at >= g[j].created_at}}

ListVersions(p) ==
    /\ Slot(p) /\ calls < MaxCalls
    /\ \E pid \in PaperIds :
         LET new == [Idle EXCEPT !.op = "list_versions", !.sub = MockUser,
                                 !.paper_id = pid]
             c == OwnerCheck(papers, pid, MockUser)
         IN IF c # 200
            THEN req' = [req EXCEPT ![p] = Finish(new, c)]
            ELSE \E l \in ListVersionsResults(paper_versions, pid) :
                   req' = [req EXCEPT ![p] = [Finish(new, 200) EXCEPT !.listing = l]]
    /\ calls' = calls + 1
    /\ UNCHANGED <<nvars, tvars, papers, paper_versions, nextPaperId, nextVersionId, blobs,
                   nextKey, clock>>

Next ==
    \/ Tick
    \/ \E p \in Procs : UploadValidate(p)
    \/ \E p \in Procs : UploadStore(p)
    \/ \E p \in Procs : UploadTx(p)
    \/ \E p \in Procs : UpdateValidate(p)
    \/ \E p \in Procs : UpdateAuth(p)
    \/ \E p \in Procs : UpdateStore(p)
    \/ \E p \in Procs : UpdateTx(p)
    \/ \E p \in Procs : DeleteAuth(p)
    \/ \E p \in Procs : DeleteTx(p)
    \/ \E p \in Procs : CreateStatusSelect(p)
    \/ \E p \in Procs : CreateStatusTx(p)
    \/ \E p \in Procs : UpdateStatusSelect(p)
    \/ \E p \in Procs : UpdateStatusTx(p)
    \/ \E p \in Procs : ListVersions(p)

Spec == Init /\ [][Next]_vars

\* ============================================================ notifications
\* (app/api/v1/endpoints/notifications.py)
ContentLimit == 60000               \* characters kept in user_messages.content

Titles == {"", "t1", "t2"}          \* payload.title ("" also stands for None)
PushTitles == {"", "t1"}            \* payload.title of a push
ContentLengths == {0, 5, ContentLimit + 1}   \* len(payload.content)
TargetIds == {"None", "", "7"}      \* target_user_id ("None": not given)
\* target_user_ids: the string given as the pieces between its commas, as
\* split(",") returns them (the string "" is the one empty piece); <<>>
\* stands for None.
TargetIdLists == {<<>>, <<"">>, <<"8">>, <<" 8">>, <<" ">>, <<"8", " 8">>,
                  <<"8", "">>, <<" ", "8">>, <<"", "">>}
CurrentUsers == {NULL, 2}           \* current_user: unparsable, or a sub
MessageIds == 1..MaxMessages

NFree(p) == nreq[p].pc \in {"idle", "done"}
NSlot(p) == NFree(p) /\ \A q \in Procs : q < p => ~NFree(q)

NFinish(r, code) ==
    [r EXCEPT !.pc = "done", !.code = code, !.title = "", !.clen = 0,
              !.meta = NULL]

MessageRows(ms, nid) == {m \in ms : m.id = nid}

\* Python truth value of an Optional[str].
Truthy(str) == str # "None" /\ str # ""

\* truth value of target_user_ids: None and "" are false.
TruthyList(tids) == tids # <<>> /\ tids # <<"">>

\* uid.strip()
Strip(piece) == IF piece = " 8" THEN "8" ELSE IF piece = " " THEN "" ELSE piece

\* (the target list with every user once)
RECURSIVE Dedup(_)
Dedup(seq) ==
    IF seq = <<>> THEN <<>>
    ELSE LET rest == Dedup(Tail(seq))
         IN  IF \E i \in 1..Len(rest) : rest[i] = Head(seq) THEN rest
             ELSE <<Head(seq)>> \o rest

TargetUsers_Dedup(tid, tids) ==
    Dedup((IF Truthy(tid) THEN <<tid>> ELSE <<>>)
          \o (IF TruthyList(tids)
              THEN SelectSeq([i \in 1..Len(tids) |-> Strip(tids[i])],
                             LAMBDA u : u # "")
              ELSE <<>>))

\* target_users: target_user_id if given, then every piece of
\* target_user_ids that is not empty once stripped.
TargetUsers(tid, tids) ==
    (IF Truthy(tid) THEN <<tid>> ELSE <<>>)
    \o (IF TruthyList(tids)
        THEN SelectSeq([i \in 1..Len(tids) |-> Strip(tids[i])],
                       LAMBDA u : u # "")
        ELSE <<>>)

\* The three parameter checks of push_notification.
PushValidation(tid, tids, title, clen) ==
    IF ~(Truthy(tid) \/ TruthyList(tids)) THEN 400
    ELSE IF title = "" THEN 400
    ELSE IF clen = 0 THEN 400
    ELSE 200

\* sender_id / sender_role out of current_user; "unknown" / "user" when it
\* does not parse.
Sender(cu) ==
    IF cu = NULL THEN [sender_id |-> "unknown", sender_role |-> "user"]
    ELSE [sender_id |-> IF cu = 2 THEN "2" ELSE "1",
          sender_role |-> IF UserRoles(cu) # <<>> THEN UserRoles(cu)[1] ELSE "user"]

\* content_value[:60000] and metadata["long_content"] = content_value[60000:]
ContentValue(clen) == IF clen > ContentLimit THEN ContentLimit ELSE clen
LongContent(clen) == IF clen > ContentLimit THEN clen - ContentLimit ELSE 0

\* The row one INSERT of push_notification writes.
MessageRow(id, uid, title, clen, cu, now) ==
    [id |-> id, user_id |-> uid, title |-> title, content |-> ContentValue(clen),
     status |-> "unread", received_time |-> now, updated_at |-> now,
     metadata |-> [sender |-> Sender(cu), long_content |-> LongContent(clen)]]

\* The INSERT loop of push_notification and db.commit(); fail = k in
\* 1..len(target_users) is a MySQLError at the k-th INSERT, fail =
\* len(target_users) + 1 one at the commit, fail = 0 none.
PushTxResult(ms, fail, first, targets, title, clen, cu, now) ==
    LET n == Len(targets)
        Rows(k) == {MessageRow(first + i - 1, targets[i], title, clen, cu, now) :
                      i \in 1..k}
    IN  IF fail \in 1..n
        THEN [messages |-> Rollback(ms, ms \cup Rows(fail - 1)), code |-> 500,
              count |-> NULL, ids |-> <<>>]
        ELSE IF fail = n + 1
        THEN [messages |-> Rollback(ms, ms \cup Rows(n)), code |-> 500,
              count |-> NULL, ids |-> <<>>]
        ELSE [messages |-> ms \cup Rows(n), code |-> 200, count |-> n,
              ids |-> [i \in 1..n |-> first + i - 1]]

\* push_notification: its writes are one transaction, visible at the commit.
PushNotification(p) ==
    /\ NSlot(p) /\ ncalls < MaxNCalls
    /\ \E tid \in TargetIds, tids \in TargetIdLists, title \in PushTitles,
          clen \in ContentLengths, cu \in CurrentUsers :
         LET new == [NIdle EXCEPT !.op = "push_notification", !.tid = tid,
                                  !.tids = tids]
             c == PushValidation(tid, tids, title, clen)
             targets == TargetUsers(tid, tids)
         IN IF c # 200
            THEN /\ nreq' = [nreq EXCEPT ![p] = NFinish(new, c)]
                 /\ UNCHANGED <<user_messages, nextMessageId>>
            ELSE /\ nextMessageId + Len(targets) - 1 <= MaxMessages
                 /\ \E fail \in 0..(Len(targets) + 1) :
                      LET out == PushTxResult(user_messages, fail, nextMessageId,
                                              targets, title, clen, cu, clock)
                      IN /\ user_messages' = out.messages
                         /\ nextMessageId' = IF out.code = 200
                                             THEN nextMessageId + Len(targets)
                                             ELSE nextMessageId
                         /\ nreq' = [nreq EXCEPT ![p] =
                                       [NFinish(new, out.code) EXCEPT
                                          !.count = out.count, !.ids = out.ids]]
    /\ ncalls' = ncalls + 1
    /\ UNCHANGED <<papers, paper_versions, nextPaperId, nextVersionId, blobs,
                   nextKey, clock, calls, req, tvars>>

\* update_notification up to its UPDATE: the payload check, SELECT id (404
\* without the row) and, when a content is given, SELECT metadata.
UpdateNotificationSelect(p) ==
    /\ NSlot(p) /\ ncalls < MaxNCalls
    /\ \E nid \in MessageIds, title \in Titles, clen \in ContentLengths :
         LET new == [NIdle EXCEPT !.op = "update_notification", !.nid = nid,
                                  !.title = title, !.clen = clen]
             rows == MessageRows(user_messages, nid)
         IN IF ~(title # "" \/ clen # 0)
            THEN nreq' = [nreq EXCEPT ![p] = NFinish(new, 400)]
            ELSE IF rows = {}
            THEN nreq' = [nreq EXCEPT ![p] = NFinish(new, 404)]
            ELSE \E m \in rows :
                   nreq' = [nreq EXCEPT ![p] =
                              [new EXCEPT !.pc = "tx",
                                          !.meta = IF clen # 0 THEN m.metadata
                                                   ELSE NULL]]
    /\ ncalls' = ncalls + 1
    /\ UNCHANGED <<papers, paper_versions, nextPaperId, nextVersionId, blobs,
                   nextKey, clock, calls, req, user_messages, nextMessageId, tvars>>

\* existing_metadata.update(metadata): long_content is replaced only when
\* the new content is long.
MergedMetadata(existing, clen) ==
    IF LongContent(clen) > 0
    THEN [existing EXCEPT !.long_content = LongContent(clen)]
    ELSE existing

\* (an edit that also puts the message back to unread)
UpdatedMessage_Unread(m, r, now) ==
    [m EXCEPT !.title = IF r.title # "" THEN r.title ELSE @,
              !.content = IF r.clen # 0 THEN ContentValue(r.clen) ELSE @,
              !.metadata = IF r.clen # 0 THEN MergedMetadata(r.meta, r.clen) ELSE @,
              !.status = "unread",
              !.updated_at = now]

\* UPDATE user_messages SET [title], [content, metadata], updated_at
UpdatedMessage(m, r, now) ==
    [m EXCEPT !.title = IF r.title # "" THEN r.title ELSE @,
              !.content = IF r.clen # 0 THEN ContentValue(r.clen) ELSE @,
              !.metadata = IF r.clen # 0 THEN MergedMetadata(r.meta, r.clen) ELSE @,
              !.updated_at = now]

\* cursor.rowcount of an UPDATE ... WHERE id = nid: the rows it changed (a
\* row that already holds the new values does not count).
RowCount(ms, s1) == Cardinality(ms \ s1)

\* The UPDATE of update_notification, 404 on rowcount 0, else db.commit();
\* db.rollback() and 500 on MySQLError.
UpdateNotificationTxResult(ms, fail, r, now) ==
    LET s1 == {IF m.id = r.nid THEN UpdatedMessage(m, r, now) ELSE m : m \in ms}
    IN  IF fail = "stmt1" THEN [messages |-> Rollback(ms, ms), code |-> 500]
        ELSE IF RowCount(ms, s1) = 0 THEN [messages |-> ms, code |-> 404]
        ELSE IF fail = "commit" THEN [messages |-> Rollback(ms, s1), code |-> 500]
        ELSE [messages |-> s1, code |-> 200]

UpdateNotificationTx(p) ==
    /\ nreq[p].op = "update_notification" /\ nreq[p].pc = "tx"
    /\ \E fail \in FailPoints \ {"stmt2"} :
         LET out == UpdateNotificationTxResult(user_messages, fail, nreq[p], clock)
         IN /\ user_messages' = out.messages
            /\ nreq' = [nreq EXCEPT ![p] = NFinish(@, out.code)]
    /\ UNCHANGED <<papers, paper_versions, nextPaperId, nextVersionId, blobs,
                   nextKey, clock, calls, req, nextMessageId, ncalls, tvars>>

\* retract_notification up to its UPDATE: SELECT id, 404 without the row.
RetractSelect(p) ==
    /\ NSlot(p) /\ ncalls < MaxNCalls
    /\ \E nid \in MessageIds :
         LET new == [NIdle EXCEPT !.op = "retract_notification", !.nid = nid]
         IN nreq' = [nreq EXCEPT ![p] =
                       IF MessageRows(user_messages, nid) = {}
                       THEN NFinish(new, 404)
                       ELSE [new EXCEPT !.pc = "tx"]]
    /\ ncalls' = ncalls + 1
    /\ UNCHANGED <<papers, paper_versions, nextPaperId, nextVersionId, blobs,
                   nextKey, clock, calls, req, user_messages, nextMessageId, tvars>>

\* UPDATE user_messages SET status = 'retracted', updated_at = now
RetractedMessage(m, now) == [m EXCEPT !.status = "retracted", !.updated_at = now]

\* The UPDATE of retract_notification, 404 on rowcount 0, else db.commit();
\* db.rollback() and 500 on MySQLError.
RetractTxResult(ms, fail, nid, now) ==
    LET s1 == {IF m.id = nid THEN RetractedMessage(m, now) ELSE m : m \in ms}
    IN  IF fail = "stmt1" THEN [messages |-> Rollback(ms, ms), code |-> 500]
        ELSE IF RowCount(ms, s1) = 0 THEN [messages |-> ms, code |-> 404]
        ELSE IF fail = "commit" THEN [messages |-> Rollback(ms, s1), code |-> 500]
        ELSE [messages |-> s1, code |-> 200]

RetractTx(p) ==
    /\ nreq[p].op = "retract_notification" /\ nreq[p].pc = "tx"
    /\ \E fail \in FailPoints \ {"stmt2"} :
         LET out == RetractTxResult(user_messages, fail, nreq[p].nid, clock)
         IN /\ user_messages' = out.messages
            /\ nreq' = [nreq EXCEPT ![p] = NFinish(@, out.code)]
    /\ UNCHANGED <<papers, paper_versions, nextPaperId, nextVersionId, blobs,
                   nextKey, clock, calls, req, nextMessageId, ncalls, tvars>>

NotificationNext ==
    \/ Tick
    \/ \E p \in Procs : PushNotification(p)
    \/ \E p \in Procs : UpdateNotificationSelect(p)
    \/ \E p \in Procs : UpdateNotificationTx(p)
    \/ \E p \in Procs : RetractSelect(p)
    \/ \E p \in Procs : RetractTx(p)

NotificationSpec == Init /\ [][NotificationNext]_vars

\* ================================================================ templates
\* (app/api/v1/endpoints/admin.py, app/services/oss.py)
TemplateIds == 1..MaxTemplates      \* template_id values ("tpl_" + uuid)
TemplateSizes == {0, 5}             \* len(content) of the uploaded file

TFree(p) == treq[p].pc \in {"idle", "done"}
TSlot(p) == TFree(p) /\ \A q \in Procs : q < p => ~TFree(q)

\* The handler returns or raises: the response of a success names the key.
TFinish(r, code) ==
    [r EXCEPT !.pc = "done", !.code = code, !.old_key = NULL,
              !.key = IF code = 200 THEN @ ELSE NULL]

TemplateRows(ts, tid) == {t \in ts : t.template_id = tid}

\* upload_file_to_oss: writes the bytes under a fresh timestamped name.
StoreTemplateFile(fs, key) == fs \cup {key}

\* if key: path = Path(key); if path.is_file(): path.unlink(missing_ok=True)
Unlink(fs, key) == IF key # NULL THEN fs \ {key} ELSE fs

\* upload_template up to its INSERT: the file is written (no check of its
\* content) and the template_id is drawn.
UploadTemplateStore(p) ==
    /\ TSlot(p) /\ tcalls < MaxTCalls
    /\ nextTemplate.id <= MaxTemplates
    /\ \E size \in TemplateSizes :
          /\ template_files' = StoreTemplateFile(template_files, nextTemplate.key)
          /\ treq' = [treq EXCEPT ![p] =
                        [TIdle EXCEPT !.op = "upload_template", !.pc = "tx",
                                      !.tid = nextTemplate.id,
                                      !.key = nextTemplate.key]]
    /\ nextTemplate' = [id |-> nextTemplate.id + 1, key |-> nextTemplate.key + 1]
    /\ tcalls' = tcalls + 1
    /\ UNCHANGED <<papers, paper_versions, nextPaperId, nextVersionId, blobs,
                   nextKey, clock, calls, req, nvars, templates>>

\* INSERT INTO templates ...; db.commit(), or db.rollback() and 500.
UploadTemplateTxResult(ts, fail, tid, key) ==
    LET s1 == ts \cup {[template_id |-> tid, oss_key |-> key]}
    IN  IF fail = "stmt1" THEN [templates |-> Rollback(ts, ts), code |-> 500]
        ELSE IF fail = "commit" THEN [templates |-> Rollback(ts, s1), code |-> 500]
        ELSE [templates |-> s1, code |-> 200]

UploadTemplateTx(p) ==
    /\ treq[p].op = "upload_template" /\ treq[p].pc = "tx"
    /\ \E fail \in FailPoints \ {"stmt2"} :
         LET out == UploadTemplateTxResult(templates, fail, treq[p].tid, treq[p].key)
         IN /\ templates' = out.templates
            /\ treq' = [treq EXCEPT ![p] = TFinish(@, out.code)]
    /\ UNCHANGED <<papers, paper_versions, nextPaperId, nextVersionId, blobs,
                   nextKey, clock, calls, req, nvars, template_files,
                   nextTemplate, tcalls>>

\* (update_template removing the old file before its UPDATE)
TemplateUpdateOrder_UnlinkFirst == <<"select", "unlink", "tx", "done">>

\* The steps of update_template after the new file is written: the SELECT of
\* the row, the UPDATE with its commit, the removal of the old file.
TemplateUpdateOrder == <<"select", "tx", "unlink", "done">>

TAdvance(r, next) == IF next = "done" THEN TFinish(r, 200) ELSE [r EXCEPT !.pc = next]

\* update_template up to its SELECT: 400 on empty content, else the new
\* file is written.
UpdateTemplateStore(p) ==
    /\ TSlot(p) /\ tcalls < MaxTCalls
    /\ \E tid \in TemplateIds, size \in TemplateSizes :
         LET new == [TIdle EXCEPT !.op = "update_template", !.tid = tid]
         IN IF size = 0
            THEN /\ treq' = [treq EXCEPT ![p] = TFinish(new, 400)]
                 /\ UNCHANGED <<template_files, nextTemplate>>
            ELSE /\ template_files' = StoreTemplateFile(template_files, nextTemplate.key)
                 /\ nextTemplate' = [nextTemplate EXCEPT !.key = @ + 1]
                 /\ treq' = [treq EXCEPT ![p] =
                               [new EXCEPT !.pc = TemplateUpdateOrder[1],
                                           !.key = nextTemplate.key]]
    /\ tcalls' = tcalls + 1
    /\ UNCHANGED <<papers, paper_versions, nextPaperId, nextVersionId, blobs,
                   nextKey, clock, calls, req, nvars, templates>>

\* SELECT id, oss_key FROM templates WHERE template_id = ...: 404 without a
\* row (HTTPException, which no except clause of the handler catches), else
\* old_key is the row's oss_key.
UpdateTemplateSelect(p) ==
    /\ treq[p].op = "update_template" /\ treq[p].pc = "select"
    /\ LET rows == TemplateRows(templates, treq[p].tid)
       IN IF rows = {}
          THEN treq' = [treq EXCEPT ![p] = TFinish(@, 404)]
          ELSE \E t \in rows :
                 treq' = [treq EXCEPT ![p] =
                            [@ EXCEPT !.old_key = t.oss_key,
                                      !.pc = After(TemplateUpdateOrder, "select")]]
    /\ UNCHANGED <<papers, paper_versions, nextPaperId, nextVersionId, blobs,
                   nextKey, clock, calls, req, nvars, templates, template_files,
                   nextTemplate, tcalls>>

\* UPDATE templates SET oss_key = key, ... WHERE template_id = ...;
\* db.commit(), or db.rollback() and 500 on MySQLError.
UpdateTemplateTxResult(ts, fail, tid, key) ==
    LET s1 == {IF t.template_id = tid THEN [t EXCEPT !.oss_key = key] ELSE t :
                 t \in ts}
    IN  IF fail = "stmt1" THEN [templates |-> Rollback(ts, ts), code |-> 500]
        ELSE IF fail = "commit" THEN [templates |-> Rollback(ts, s1), code |-> 500]
        ELSE [templates |-> s1, code |-> 200]

\* The transaction of update_template; its except branch removes the new
\* file after the rollback.
UpdateTemplateTx(p) ==
    /\ treq[p].op = "update_template" /\ treq[p].pc = "tx"
    /\ \E fail \in FailPoints \ {"stmt2"} :
         LET out == UpdateTemplateTxResult(templates, fail, treq[p].tid, treq[p].key)
         IN /\ templates' = out.templates
            /\ IF out.code = 200
               THEN /\ treq' = [treq EXCEPT ![p] =
                                  TAdvance(@, After(TemplateUpdateOrder, "tx"))]
                    /\ UNCHANGED template_files
               ELSE /\ treq' = [treq EXCEPT ![p] = TFinish(@, out.code)]
                    /\ template_files' = Unlink(template_files, treq[p].key)
    /\ UNCHANGED <<papers, paper_versions, nextPaperId, nextVersionId, blobs,
                   nextKey, clock, calls, req, nvars, nextTemplate, tcalls>>

\* if old_key: ... old_path.unlink(missing_ok=True)
UpdateTemplateUnlink(p) ==
    /\ treq[p].op = "update_template" /\ treq[p].pc = "unlink"
    /\ template_files' = Unlink(template_files, treq[p].old_key)
    /\ treq' = [treq EXCEPT ![p] = TAdvance(@, After(TemplateUpdateOrder, "unlink"))]
    /\ UNCHANGED <<papers, paper_versions, nextPaperId, nextVersionId, blobs,
                   nextKey, clock, calls, req, nvars, templates, nextTemplate,
                   tcalls>>

\* delete_template up to its DELETE: the SELECT of the row, 404 without it.
DeleteTemplateSelect(p) ==
    /\ TSlot(p) /\ tcalls < MaxTCalls
    /\ \E tid \in TemplateIds :
         LET new == [TIdle EXCEPT !.op = "delete_template", !.tid = tid]
             rows == TemplateRows(templates, tid)
         IN IF rows = {}
            THEN treq' = [treq EXCEPT ![p] = TFinish(new, 404)]
            ELSE \E t \in rows :
                   treq' = [treq EXCEPT ![p] =
                              [new EXCEPT !.pc = "tx", !.old_key = t.oss_key]]
    /\ tcalls' = tcalls + 1
    /\ UNCHANGED <<papers, paper_versions, nextPaperId, nextVersionId, blobs,
                   nextKey, clock, calls, req, nvars, templates, template_files,
                   nextTemplate>>

\* DELETE FROM templates WHERE template_id = ...; db.commit(), or
\* db.rollback() and 500 on MySQLError.
DeleteTemplateTxResult(ts, fail, tid) ==
    LET s1 == {t \in ts : t.template_id # tid}
    IN  IF fail = "stmt1" THEN [templates |-> Rollback(ts, ts), code |-> 500]
        ELSE IF fail = "commit" THEN [templates |-> Rollback(ts, s1), code |-> 500]
        ELSE [templates |-> s1, code |-> 200]

DeleteTemplateTx(p) ==
    /\ treq[p].op = "delete_template" /\ treq[p].pc = "tx"
    /\ \E fail \in FailPoints \ {"stmt2"} :
         LET out == DeleteTemplateTxResult(templates, fail, treq[p].tid)
         IN /\ templates' = out.templates
            /\ treq' = [treq EXCEPT ![p] =
                          IF out.code = 200 THEN [@ EXCEPT !.pc = "unlink"]
                          ELSE TFinish(@, out.code)]
    /\ UNCHANGED <<papers, paper_versions, nextPaperId, nextVersionId, blobs,
                   nextKey, clock, calls, req, nvars, template_files,
                   nextTemplate, tcalls>>

\* if file_path: ... path.unlink(missing_ok=True)
DeleteTemplateUnlink(p) ==
    /\ treq[p].op = "delete_template" /\ treq[p].pc = "unlink"
    /\ template_files' = Unlink(template_files, treq[p].old_key)
    /\ treq' = [treq EXCEPT ![p] = TFinish(@, 200)]
    /\ UNCHANGED <<papers, paper_versions, nextPaperId, nextVersionId, blobs,
                   nextKey, clock, calls, req, nvars, templates, nextTemplate,
                   tcalls>>

TemplateNext ==
    \/ \E p \in Procs : UploadTemplateStore(p)
    \/ \E p \in Procs : UploadTemplateTx(p)
    \/ \E p \in Procs : UpdateTemplateStore(p)
    \/ \E p \in Procs : UpdateTemplateSelect(p)
    \/ \E p \in Procs : UpdateTemplateTx(p)
    \/ \E p \in Procs : UpdateTemplateUnlink(p)
    \/ \E p \in Procs : DeleteTemplateSelect(p)
    \/ \E p \in Procs : DeleteTemplateTx(p)
    \/ \E p \in Procs : DeleteTemplateUnlink(p)

TemplateSpec == Init /\ [][TemplateNext]_vars

\* =============================================================== properties
\* Request p ends in this step (its handler returns or raises).
Ends(p) == req'[p].pc = "done" /\ req'[p] # req[p]

\* The rows of a paper that upload_paper / update_paper inserted (the rows of
\* create_paper_status carry no submitter).
Uploaded(vs, pid) == {v \in VersionsOf(vs, pid) : v.submitted_by_id # NULL}

\* The row inserted last among rows.
Newest(rows) == CHOOSE v \in rows : \A w \in rows : w.id <= v.id

PointerOf(r) == <<r.latest_version, r.oss_key>>

\* ---- C1
\* C1 as stated: every paper's latest_version is the version of the most
\* recently created paper_versions row of that paper.
C1_LatestIsNewestRow ==
    \A r \in papers :
        /\ VersionsOf(paper_versions, r.id) # {}
        /\ r.latest_version = Newest(VersionsOf(paper_versions, r.id)).version

LatestIsNewestUploaded ==
    \A r \in papers :
        /\ Uploaded(paper_versions, r.id) # {}
        /\ r.latest_version = Newest(Uploaded(paper_versions, r.id)).version
        /\ r.oss_key \in blobs

\* A step changes latest_version exactly when it changes oss_key, and then it
\* is the commit of one update_paper, which sets both to that call's version
\* tag and blob.
PointerMovesTogether ==
    \A r \in papers :
        PaperExistsIn(papers', r.id) =>
            LET r2 == PaperRowIn(papers', r.id)
            IN  /\ (r2.latest_version # r.latest_version) <=> (r2.oss_key # r.oss_key)
                /\ PointerOf(r2) # PointerOf(r) =>
                      \E p \in Procs :
                          /\ req[p].op = "update_paper" /\ req[p].pc = "tx"
                          /\ req[p].paper_id = r.id
                          /\ req'[p].code = 200
                          /\ PointerOf(r2) = <<req[p].version, req[p].oss_key>>

\* C1 (amended): every paper's latest_version is the version of the row most
\* recently inserted for it by upload_paper or update_paper (a row inserted by
\* create_paper_status does not move the pointer), its oss_key is a stored
\* blob, and latest_version and oss_key only ever change together, in the
\* commit of one update_paper.
C1_LatestIsNewestUploaded ==
    [](LatestIsNewestUploaded) /\ [][PointerMovesTogether]_vars

\* A paper with an uploaded first version, a later update_paper version and a
\* still later create_paper_status row.
C1_Witness ==
    \E r \in papers :
        \E u \in Uploaded(paper_versions, r.id) :
            /\ u.version # InitialVersion
            /\ r.latest_version = u.version
            /\ \E c \in VersionsOf(paper_versions, r.id) :
                   c.submitted_by_id = NULL /\ c.id > u.id

\* ---- C2
\* C2: no two rows of paper_versions have the same (paper_id, version).
C2_UniqueVersionRow ==
    \A v, w \in paper_versions :
        (v.paper_id = w.paper_id /\ v.version = w.version) => v = w

\* An update_paper or create_paper_status whose INSERT met an existing pair
\* and was refused.
C2_Witness ==
    \E p \in Procs :
        /\ req[p].op \in {"update_paper", "create_paper_status"}
        /\ req[p].pc = "done" /\ req[p].code = 500
        /\ \E q \in Procs \ {p} :
              /\ req[q].op \in {"update_paper", "create_paper_status"}
              /\ req[q].pc = "done" /\ req[q].code = 200
              /\ req[q].paper_id = req[p].paper_id
              /\ req[q].version = req[p].version
        /\ VersionRows(paper_versions, req[p].paper_id, req[p].version) # {}

\* ---- C3
Creators == {"update_paper", "create_paper_status"}

\* Request q is about to run its INSERT for a pair that a request running at
\* the same time has committed meanwhile: a create_paper_status whose SELECT
\* had found no such row, or an update_paper whose blob was stored before the
\* blob of the update_paper that committed the pair.
LostRace(q) ==
    /\ req[q].op \in Creators /\ req[q].pc = "tx"
    /\ DuplicateKey(paper_versions, req[q].paper_id, req[q].version)
    /\ \E p \in Procs \ {q} :
          /\ req[p].op \in Creators /\ req[p].pc = "done" /\ req[p].code = 200
          /\ req[p].paper_id = req[q].paper_id /\ req[p].version = req[q].version
          /\ \/ req[q].op = "create_paper_status"
             \/ req[p].op = "update_paper" /\ req[p].oss_key > req[q].oss_key

\* C3: of two requests that concurrently create the same (paper_id, version)
\* one commits its row and the other is rejected with Conflict (409) and
\* adds no row.
C3_RaceLoserGetsConflict ==
    [][\A q \in Procs :
          (LostRace(q) /\ Ends(q)) =>
              /\ req'[q].code = 409
              /\ paper_versions' = paper_versions]_vars

\* ---- C4
\* C4: update_paper by the owner with a valid file and a version tag that
\* already exists for the paper ends with Conflict (409) and leaves the
\* papers row and the version rows as they were.
C4_DuplicateTagIsConflict ==
    [][\A p \in Procs :
          ( /\ req[p].op = "update_paper" /\ req[p].pc = "tx"
            /\ Ends(p)
            /\ VersionRows(paper_versions, req[p].paper_id, req[p].version) # {} )
          => /\ req'[p].code = 409
             /\ papers' = papers
             /\ paper_versions' = paper_versions]_vars

\* ---- C5
\* C5: every papers row has its v1.0 row in paper_versions, and every v1.0
\* row belongs to an existing papers row, also after an upload_paper whose
\* first or second INSERT, or whose commit, failed.
C5_PaperIffFirstVersion ==
    /\ \A r \in papers : VersionRows(paper_versions, r.id, InitialVersion) # {}
    /\ \A v \in paper_versions :
          v.version = InitialVersion => PaperExists(v.paper_id)

\* An upload_paper that stored its blob and then failed in the database,
\* next to a paper that an earlier upload_paper created.
C5_Witness ==
    /\ \E p \in Procs :
          /\ req[p].op = "upload_paper" /\ req[p].pc = "done"
          /\ req[p].code = 500 /\ req[p].oss_key # NULL
    /\ papers # {}

\* ---- C6
\* C6: a step changes the pointer (latest_version, oss_key) of a paper exactly
\* when it inserts a new update_paper row for that paper, and the pointer
\* then names that row's version.
C6_PointerIffNewVersion ==
    [][\A r \in papers :
          PaperExistsIn(papers', r.id) =>
              LET r2 == PaperRowIn(papers', r.id)
                  new == {v \in Uploaded(paper_versions', r.id) :
                            \A w \in paper_versions : w.id # v.id}
              IN  /\ (PointerOf(r2) # PointerOf(r)) <=> (new # {})
                  /\ \A v \in new : r2.latest_version = v.version]_vars

\* An update_paper whose transaction was rolled back after the blob write,
\* on a paper that is still there.
C6_Witness ==
    \E p \in Procs :
        /\ req[p].op = "update_paper" /\ req[p].pc = "done"
        /\ req[p].code = 500 /\ req[p].oss_key # NULL
        /\ PaperExists(req[p].paper_id)
        /\ PaperRow(req[p].paper_id).oss_key # req[p].oss_key

\* ---- C7
\* C7: when upload_paper succeeds it returns latest_version "v1.0", and the
\* new paper then has exactly one paper_versions row, with version "v1.0",
\* status "ok" and the size of the uploaded content.
C7_UploadCreatesOneVersion ==
    [][\A p \in Procs :
          ( /\ req[p].op = "upload_paper" /\ req[p].pc = "tx"
            /\ Ends(p) /\ req'[p].code = 200 )
          => /\ req'[p].ret.latest_version = "v1.0"
             /\ PaperExistsIn(papers', req'[p].ret.id)
             /\ PaperRowIn(papers', req'[p].ret.id).latest_version = "v1.0"
             /\ LET rows == VersionsOf(paper_versions', req'[p].ret.id)
                IN  /\ Cardinality(rows) = 1
                    /\ \A v \in rows : /\ v.version = "v1.0"
                                       /\ v.status = "ok"
                                       /\ v.size = req[p].size]_vars

\* A successful upload_paper of a non-empty file.
C7_Witness ==
    \E p \in Procs :
        /\ req[p].op = "upload_paper" /\ req[p].pc = "done" /\ req[p].code = 200
        /\ \E v \in VersionsOf(paper_versions, req[p].ret.id) : v.size > 0

\* ---- C8
\* C8: when update_paper succeeds, the paper's latest_version and oss_key
\* are those of the call, the paper has one more version row than before,
\* and every answer list_versions can give starts with the new version.
C8_NewVersionListedFirst ==
    [][\A p \in Procs :
          ( /\ req[p].op = "update_paper" /\ req[p].pc = "tx"
            /\ Ends(p) /\ req'[p].code = 200 )
          => LET pid == req[p].paper_id
             IN  /\ PointerOf(PaperRowIn(papers', pid))
                      = <<req[p].version, req[p].oss_key>>
                 /\ Cardinality(VersionsOf(paper_versions', pid))
                      = Cardinality(VersionsOf(paper_versions, pid)) + 1
                 /\ \A l \in ListVersionsResults(paper_versions', pid) :
                        l[1].version = req[p].version]_vars

\* ---- C9
\* C9: update_paper and delete_paper by a caller who is not the owner of the
\* (existing) paper end with Forbidden (403) and change no row.
C9_NonOwnerIsForbidden ==
    [][\A p \in Procs :
          ( /\ Ends(p)
            /\ req'[p].op \in {"update_paper", "delete_paper"}
            /\ PaperExists(req'[p].paper_id)
            /\ PaperRow(req'[p].paper_id).owner_id # req'[p].sub )
          => /\ req'[p].code = 403
             /\ papers' = papers
             /\ paper_versions' = paper_versions]_vars

\* ---- C10
\* C10: an upload_paper or update_paper that ends with 400, 403 or 404 has
\* written no blob (its oss_key was never assigned, the blob store is as it
\* was) and no row.
C10_EarlyErrorsHaveNoEffect ==
    [][\A p \in Procs :
          ( /\ Ends(p)
            /\ req'[p].op \in {"upload_paper", "update_paper"}
            /\ req'[p].code \in {400, 403, 404} )
          => /\ req'[p].oss_key = NULL
             /\ blobs' = blobs
             /\ papers' = papers
             /\ paper_versions' = paper_versions]_vars

\* An update_paper refused with 403 and one refused with 404 or 400, with a
\* blob in the store and a paper in the table.
C10_Witness ==
    /\ \E p \in Procs :
          /\ req[p].op = "update_paper" /\ req[p].pc = "done" /\ req[p].code = 403
    /\ \E p \in Procs :
          /\ req[p].op \in {"upload_paper", "update_paper"} /\ req[p].pc = "done"
          /\ req[p].code \in {400, 404}
    /\ blobs # {} /\ papers # {}

\* ---- C11
\* C11: an upload_paper whose database transaction fails after the blob
\* write ends with 500, has added no row, and its blob is no longer in the
\* blob store.
C11_FailedUploadDeletesBlob ==
    [][\A p \in Procs :
          ( /\ req[p].op = "upload_paper" /\ req[p].pc = "tx"
            /\ Ends(p) /\ req'[p].code # 200 )
          => /\ req'[p].code = 500
             /\ papers' = papers
             /\ paper_versions' = paper_versions
             /\ req[p].oss_key \notin blobs']_vars

\* ---- C12
\* C12: an update_paper whose database transaction fails after the blob
\* write ends with 500, the papers row keeps its latest_version and oss_key,
\* the blob that row names is still stored, and the new blob is no longer in
\* the blob store.
C12_FailedUpdateDeletesBlob ==
    [][\A p \in Procs :
          ( /\ req[p].op = "update_paper" /\ req[p].pc = "tx"
            /\ Ends(p) /\ req'[p].code # 200 )
          => /\ req'[p].code = 500
             /\ papers' = papers
             /\ \A r \in papers' : r.oss_key \in blobs'
             /\ req[p].oss_key \notin blobs']_vars

\* ---- C13
\* C13: when update_paper succeeds, the blob of the version that was the
\* latest until then is still stored, and its storage key is recorded on the
\* paper_versions row of that version.
C13_EarlierArtifactReachable ==
    [][\A p \in Procs :
          ( /\ req[p].op = "update_paper" /\ req[p].pc = "tx"
            /\ Ends(p) /\ req'[p].code = 200 )
          => LET old == PaperRow(req[p].paper_id)
             IN  /\ old.oss_key \in blobs'
                 /\ \E v \in VersionRows(paper_versions', old.id, old.latest_version) :
                        VersionKey(v) = old.oss_key]_vars

\* ---- C14
\* upload_paper or update_paper (by the owner of an existing paper) called
\* with a .docx file in this step.
DocxCall(p) ==
    /\ req[p] # req'[p] /\ Slot(p)
    /\ req'[p].op \in {"upload_paper", "update_paper"}
    /\ req'[p].op = "update_paper" =>
          /\ PaperExists(req'[p].paper_id)
          /\ PaperRow(req'[p].paper_id).owner_id = req'[p].sub

\* C14: for a .docx file the size check lets the content through exactly
\* when 0 < len(content) <= 100 MiB (100 MiB passes, 100 MiB + 1 and the
\* empty file do not), and answers 400 otherwise, with nothing written.
C14_SizeWindow ==
    [][\A p \in Procs :
          DocxCall(p) =>
              /\ (req'[p].pc # "done" /\ IsDocx(req'[p].filename))
                    => (0 < req'[p].size /\ req'[p].size <= MaxBytes)
              /\ req'[p].pc = "done" =>
                    /\ req'[p].code = 400
                    /\ UNCHANGED <<papers, paper_versions, blobs>>
              /\ \A f \in Filenames, s \in Sizes :
                    (IsDocx(f) /\ 0 < s /\ s <= MaxBytes) =>
                        /\ UploadValidation(f, s) = 200
                        /\ UpdateValidation(f, s) = 200]_vars

\* ---- C15
\* C15: create_paper_status on a pair that has a row ends with 409, and
\* update_paper_status on a pair that has no row ends with 404; neither
\* changes a row.
C15_ConflictAndNotFound ==
    [][\A p \in Procs :
          (req'[p] # req[p] /\ Slot(p)) =>
              LET had == VersionRows(paper_versions, req'[p].paper_id,
                                     req'[p].version) # {}
              IN  /\ (req'[p].op = "create_paper_status" /\ had) =>
                        /\ req'[p].pc = "done" /\ req'[p].code = 409
                        /\ UNCHANGED <<papers, paper_versions>>
                  /\ (req'[p].op = "update_paper_status" /\ ~had) =>
                        /\ req'[p].pc = "done" /\ req'[p].code = 404
                        /\ UNCHANGED <<papers, paper_versions>>]_vars

\* A create_paper_status answered 409 next to an update_paper_status
\* answered 404.
C15_Witness ==
    /\ \E p \in Procs :
          /\ req[p].op = "create_paper_status" /\ req[p].pc = "done"
          /\ req[p].code = 409
    /\ \E p \in Procs :
          /\ req[p].op = "update_paper_status" /\ req[p].pc = "done"
          /\ req[p].code = 404

\* ---- C16
\* The rows of vs2 whose id no row of vs1 has.
Inserted(vs1, vs2) == {v \in vs2 : \A w \in vs1 : w.id # v.id}

\* C16: create_paper_status for a paper that does not exist ends with 404
\* and inserts nothing; its INSERT for an existing paper and a new pair
\* either commits exactly one row, with the given status and with the given
\* size or 0 when none is given, and answers 200, or is rolled back with 500;
\* it answers 200 in no other case.
C16_CreateStatusInsertsOneRow ==
    [][\A p \in Procs :
          /\ ( /\ req'[p] # req[p] /\ Slot(p)
               /\ req'[p].op = "create_paper_status"
               /\ ~PaperExists(req'[p].paper_id) )
             => /\ req'[p].pc = "done" /\ req'[p].code = 404
                /\ UNCHANGED <<papers, paper_versions>>
          /\ ( /\ req[p].op = "create_paper_status" /\ req[p].pc = "tx"
               /\ Ends(p) )
             => LET new == Inserted(paper_versions, paper_versions')
                    fresh == /\ PaperExists(req[p].paper_id)
                             /\ VersionRows(paper_versions, req[p].paper_id,
                                            req[p].version) = {}
                IN  /\ fresh => CreateStatusTxResult(DB, "none", nextVersionId,
                                                     req[p], clock).code = 200
                    /\ IF req'[p].code = 200
                       THEN /\ fresh
                            /\ Cardinality(new) = 1
                            /\ paper_versions' = paper_versions \cup new
                            /\ papers' = papers
                            /\ \A v \in new :
                                  /\ v.paper_id = req[p].paper_id
                                  /\ v.version = req[p].version
                                  /\ v.status = req[p].status
                                  /\ v.size = IF req[p].psize = NULL THEN 0
                                              ELSE req[p].psize
                       ELSE /\ req'[p].code = 500
                            /\ UNCHANGED <<papers, paper_versions>>]_vars

\* A create_paper_status without a size that committed its row, whose size
\* is 0.
C16_Witness ==
    \E p \in Procs :
        /\ req[p].op = "create_paper_status" /\ req[p].pc = "done"
        /\ req[p].code = 200
        /\ \E v \in VersionRows(paper_versions, req[p].paper_id, req[p].version) :
              v.size = 0 /\ v.submitted_by_id = NULL /\ v.status = "failed"

\* ---- C17
\* C17: a successful update_paper_status changes only status, size and
\* updated_at of the targeted (paper_id, version) row; size keeps the value
\* the row had when the request gives none; every other row of
\* paper_versions and every row of papers stays as it was.
C17_UpdateStatusFrame ==
    [][\A p \in Procs :
          ( /\ req[p].op = "update_paper_status" /\ req[p].pc = "tx"
            /\ Ends(p) /\ req'[p].code = 200 )
          => /\ papers' = papers
             /\ \A v \in paper_versions :
                   \E w \in paper_versions' :
                       /\ w.id = v.id
                       /\ IF v.paper_id = req[p].paper_id /\ v.version = req[p].version
                          THEN /\ w = [v EXCEPT !.status = w.status,
                                                !.size = w.size,
                                                !.updated_at = w.updated_at]
                               /\ w.status = req[p].status
                               /\ w.size = IF req[p].psize = NULL THEN v.size
                                           ELSE req[p].psize
                          ELSE w = v
             /\ Inserted(paper_versions, paper_versions') = {}]_vars

\* ---- C18
\* One whole update_paper_status call that meets no database error, run
\* alone on the store d: the SELECT of the row's size, then the UPDATE.
UpdateStatusCall(d, pid, ver, st, psize, now) ==
    LET rows == VersionRows(d.versions, pid, ver)
    IN  IF rows = {} THEN d
        ELSE UpdateStatusTxResult(d, "none",
                                  [paper_id |-> pid, version |-> ver,
                                   status |-> st, psize |-> psize,
                                   row_size |-> (CHOOSE r \in rows : TRUE).size],
                                  now).db

StatusAndSize(d, pid, ver) ==
    {<<r.status, r.size>> : r \in VersionRows(d.versions, pid, ver)}

\* C18: in every reachable store, for every row and every payload, running
\* update_paper_status twice in a row with that payload leaves the row with
\* the status and size that running it once leaves, and these are the
\* payload's status and the payload's size (the row's own when omitted).
C18_UpdateStatusIdempotent ==
    \A v \in paper_versions, st \in Statuses, sz \in PayloadSizes,
       t1 \in clock..MaxClock :
        LET once  == UpdateStatusCall(DB, v.paper_id, v.version, st, sz, clock)
            twice == UpdateStatusCall(once, v.paper_id, v.version, st, sz, t1)
        IN  /\ StatusAndSize(twice, v.paper_id, v.version)
                 = StatusAndSize(once, v.paper_id, v.version)
            /\ StatusAndSize(once, v.paper_id, v.version)
                 = {<<st, IF sz = NULL THEN v.size ELSE sz>>}
            /\ twice.papers = papers

\* Two update_paper_status calls with the same payload have both committed
\* on the same row, which carries that payload's status and size.
C18_Witness ==
    \E p, q \in Procs :
        /\ p # q
        /\ req[p].op = "update_paper_status" /\ req[q].op = "update_paper_status"
        /\ req[p].pc = "done" /\ req[q].pc = "done"
        /\ req[p].code = 200 /\ req[q].code = 200
        /\ req[p].sret = req[q].sret
        /\ req[p].sret.size = 5
        /\ \E v \in VersionRows(paper_versions, req[p].paper_id, req[p].version) :
              v.status = req[p].sret.status /\ v.size = 5

\* ---- C19
NoOrphanVersions == \A v \in paper_versions : PaperExists(v.paper_id)

DeleteRemovesAll ==
    \A p \in Procs :
        ( /\ req[p].op = "delete_paper" /\ req[p].pc = "tx"
          /\ Ends(p) /\ req'[p].code = 200 )
        => /\ ~PaperExistsIn(papers', req[p].paper_id)
           /\ VersionsOf(paper_versions', req[p].paper_id) = {}
           /\ \A r \in papers : r.id # req[p].paper_id => r \in papers'
           /\ \A v \in paper_versions :
                 v.paper_id # req[p].paper_id => v \in paper_versions'

\* C19: a successful delete_paper removes the paper's row and every version
\* row of that paper and nothing else, and in every reachable state every
\* version row names a paper that exists.
C19_NoOrphanVersions == [](NoOrphanVersions) /\ [][DeleteRemovesAll]_vars

\* A delete_paper has committed on a paper that had version rows: the paper
\* is gone and no row names it, while rows of another paper remain.
C19_Witness ==
    \E p \in Procs :
        /\ req[p].op = "delete_paper" /\ req[p].pc = "done" /\ req[p].code = 200
        /\ ~PaperExists(req[p].paper_id)
        /\ VersionsOf(paper_versions, req[p].paper_id) = {}
        /\ nextPaperId > req[p].paper_id
        /\ paper_versions # {}

\* ---- C20
\* C20: list_versions answers 404 for a paper that does not exist, 403 for a
\* paper of another owner, and otherwise lists every version row of the
\* paper once, created_at descending, a row inserted later always before
\* every row inserted earlier.
C20_ListedNewestFirst ==
    [][\A p \in Procs :
          (req'[p] # req[p] /\ Slot(p) /\ req'[p].op = "list_versions")
          => LET pid == req'[p].paper_id
                 l == req'[p].listing
                 rows == VersionsOf(paper_versions, pid)
                 RowOf(e) == CHOOSE v \in rows : v.version = e.version
             IN  IF ~PaperExists(pid) THEN req'[p].code = 404
                 ELSE IF PaperRow(pid).owner_id # req'[p].sub
                      THEN req'[p].code = 403
                 ELSE /\ req'[p].code = 200
                      /\ Len(l) = Cardinality(rows)
                      /\ {l[i] : i \in 1..Len(l)} = {VersionOut(v) : v \in rows}
                      /\ \A i, j \in 1..Len(l) :
                            i < j => /\ l[i].created_at >= l[j].created_at
                                     /\ RowOf(l[i]).id > RowOf(l[j]).id]_vars

\* ---- C21
Pairs(vs, pid) == {v.version : v \in VersionsOf(vs, pid)}

\* The successful DELETE of delete_paper on paper pid happens in this step.
DeletedNow(pid) ==
    \E p \in Procs :
        /\ req[p].op = "delete_paper" /\ req[p].pc = "tx"
        /\ req[p].paper_id = pid /\ Ends(p) /\ req'[p].code = 200

\* C21: no step removes a version row of a paper that still exists after the
\* step: the paper's (paper_id, version) pairs only grow, every row keeps its
\* id, paper and tag; rows disappear only in the step in which delete_paper
\* removes their paper, and then all of them.
C21_VersionRowsOnlyGrow ==
    [][\A pid \in PaperIds :
          /\ PaperExistsIn(papers', pid) =>
                /\ Pairs(paper_versions, pid) \subseteq Pairs(paper_versions', pid)
                /\ \A v \in VersionsOf(paper_versions, pid) :
                      \E w \in VersionsOf(paper_versions', pid) :
                          w.id = v.id /\ w.version = v.version
          /\ ~(Pairs(paper_versions, pid) \subseteq Pairs(paper_versions', pid))
                => DeletedNow(pid) /\ VersionsOf(paper_versions', pid) = {}]_vars

\* A paper with a first version, a version added by update_paper (or by
\* create_paper_status) and an update_paper_status that has changed a row.
C21_Witness ==
    \E r \in papers :
        /\ Cardinality(Pairs(paper_versions, r.id)) >= 2
        /\ \E v \in VersionsOf(paper_versions, r.id) :
              v.updated_at # NULL /\ v.status = "failed"
        /\ \E p \in Procs :
              /\ req[p].op = "update_paper_status" /\ req[p].pc = "done"
              /\ req[p].code = 200 /\ req[p].paper_id = r.id

\* ---- C22
\* C22: a papers row appears only in the commit of an upload_paper, with
\* owner_id the uploader's sub, and no step changes the owner_id of a row.
C22_OwnerImmutable ==
    [][\A pid \in PaperIds :
          PaperExistsIn(papers', pid) =>
              IF PaperExists(pid)
              THEN PaperRowIn(papers', pid).owner_id = PaperRow(pid).owner_id
              ELSE \E p \in Procs :
                      /\ req[p].op = "upload_paper" /\ req[p].pc = "tx"
                      /\ Ends(p) /\ req'[p].code = 200
                      /\ PaperRowIn(papers', pid).owner_id = req[p].sub]_vars

\* A paper uploaded by user 2, then given a new version by update_paper and
\* a row by create_paper_status, is still owned by user 2.
C22_Witness ==
    \E r \in papers :
        /\ r.owner_id = 2 /\ r.latest_version # InitialVersion
        /\ \E v \in VersionsOf(paper_versions, r.id) : v.submitted_by_id = NULL

\* ---- C23
Submitter(v) == <<v.submitted_by_id, v.submitted_by_name, v.submitted_by_role>>

\* C23: a row inserted by upload_paper or update_paper carries the sub, the
\* username and the joined roles of the caller of that request, and no step
\* changes the three columns of a row that exists.
C23_SubmitterSnapshotFixed ==
    [][/\ \A v \in paper_versions, w \in paper_versions' :
             w.id = v.id => Submitter(w) = Submitter(v)
       /\ \A p \in Procs :
             ( /\ req[p].op \in {"upload_paper", "update_paper"}
               /\ req[p].pc = "tx" /\ Ends(p) /\ req'[p].code = 200 )
             => \A w \in Inserted(paper_versions, paper_versions') :
                   Submitter(w) = <<req[p].sub, UserName(req[p].sub),
                                    SubmitterRole(UserRoles(req[p].sub))>>]_vars

\* A row that update_paper inserted for user 2 (two roles), whose status an
\* update_paper_status has changed since, still names that submitter.
C23_Witness ==
    \E v \in paper_versions :
        /\ v.version # InitialVersion
        /\ Submitter(v) = <<2, "", <<"teacher", ",", "admin">>>>
        /\ v.status = "failed"

\* ---- C24
\* C24: update_paper looks the owner up before it looks at the file: a call
\* answered 400 is a call by the owner of a paper that exists, a call on a
\* paper that does not exist is answered 404 and a call by another user 403,
\* whatever the file.
C24_OwnershipBeforeFile ==
    [][/\ \A p \in Procs :
          (req'[p] # req[p] /\ Slot(p) /\ req'[p].op = "update_paper")
          => LET pid == req'[p].paper_id
             IN  /\ ~PaperExists(pid) => req'[p].code \in {0, 404}
                 /\ (PaperExists(pid) /\ PaperRow(pid).owner_id # req'[p].sub)
                       => req'[p].code \in {0, 403}
       /\ \A p \in Procs :
          (req[p].op = "update_paper" /\ req[p].pc = "auth" /\ req'[p] # req[p])
          => LET pid == req[p].paper_id
             IN  /\ ~PaperExists(pid) => req'[p].code = 404
                 /\ (PaperExists(pid) /\ PaperRow(pid).owner_id # req[p].sub)
                       => req'[p].code = 403]_vars

\* ---- C25
\* C25: the commit of an update_paper leaves the status (and every other
\* column) of each row the paper already had as it was; the one row it adds
\* has status "ok".
C25_NoAutomaticTransition ==
    [][\A p \in Procs :
          ( /\ req[p].op = "update_paper" /\ req[p].pc = "tx"
            /\ Ends(p) /\ req'[p].code = 200 )
          => /\ \A v \in VersionsOf(paper_versions, req[p].paper_id) :
                   \E w \in paper_versions' : w.id = v.id /\ w.status = v.status
             /\ paper_versions \subseteq paper_versions'
             /\ \A w \in Inserted(paper_versions, paper_versions') :
                   w.status = "ok"]_vars

\* update_paper has made v2.0 (or v3.0) the latest version of a paper whose
\* earlier row was set to "failed" before: the earlier row is still "failed".
C25_Witness ==
    \E r \in papers :
        /\ r.latest_version # InitialVersion
        /\ \E v \in VersionRows(paper_versions, r.id, InitialVersion) :
              v.status = "failed"
        /\ \E p \in Procs :
              /\ req[p].op = "update_paper" /\ req[p].pc = "done"
              /\ req[p].code = 200 /\ req[p].paper_id = r.id

\* ---- C26
\* C26: the UPDATE of an update_paper_status request that gives no size
\* writes the size the row has at that moment: it never replaces a size
\* that another request committed after this request's SELECT.
C26_OmittedSizeNeverOverwrites ==
    [][\A p \in Procs :
          ( /\ req[p].op = "update_paper_status" /\ req[p].pc = "tx"
            /\ req[p].psize = NULL /\ Ends(p) /\ req'[p].code = 200 )
          => StatusAndSize(DB', req[p].paper_id, req[p].version)
               = {<<req[p].status, v.size>> :
                    v \in VersionRows(paper_versions, req[p].paper_id,
                                      req[p].version)}]_vars

\* ---- C27
\* Notification request p ends in this step.
NEnds(p) == nreq'[p].pc = "done" /\ nreq'[p] # nreq[p]

NewMessages == {w \in user_messages' : \A m \in user_messages : m.id # w.id}

\* C27: no step removes a message or takes a message out of status
\* 'retracted'; a retract_notification that succeeds leaves its message
\* 'retracted'; a message row appears only in the commit of a
\* push_notification, with status 'unread'.
C27_RetractedIsAbsorbing ==
    [][/\ \A m \in user_messages :
             \E w \in user_messages' :
                 /\ w.id = m.id
                 /\ m.status = "retracted" => w.status = "retracted"
       /\ \A w \in NewMessages :
             /\ w.status = "unread"
             /\ \E p \in Procs :
                   /\ NEnds(p) /\ nreq'[p].op = "push_notification"
                   /\ nreq'[p].code = 200
       /\ \A p \in Procs :
             ( /\ nreq[p].op = "retract_notification" /\ nreq[p].pc = "tx"
               /\ NEnds(p)
               /\ nreq'[p].code = 200 )
             => /\ MessageRows(user_messages', nreq[p].nid) # {}
                /\ \A w \in MessageRows(user_messages', nreq[p].nid) :
                      w.status = "retracted"]_vars

\* A message that a retract_notification has retracted and whose title an
\* update_notification has changed is 'retracted'.
C27_Witness ==
    \E m \in user_messages :
        /\ m.status = "retracted" /\ m.title = "t2"
        /\ \E p, q \in Procs :
              /\ nreq[p].op = "retract_notification" /\ nreq[p].pc = "done"
              /\ nreq[p].code = 200 /\ nreq[p].nid = m.id
              /\ nreq[q].op = "update_notification" /\ nreq[q].pc = "done"
              /\ nreq[q].code = 200 /\ nreq[q].nid = m.id

\* ---- C28
\* The entries of the target list of a call: target_user_id when it is
\* given and not empty, then the pieces of target_user_ids that are not
\* blank, without their surrounding blanks, each as often as it is given.
RECURSIVE NonBlank(_)
NonBlank(pieces) ==
    IF pieces = <<>> THEN <<>>
    ELSE LET h == Head(pieces)
         IN  (IF h \in {"", " "} THEN <<>>
              ELSE <<IF h = " 8" THEN "8" ELSE h>>) \o NonBlank(Tail(pieces))

TargetList(tid, tids) ==
    (IF tid \in {"None", ""} THEN <<>> ELSE <<tid>>) \o NonBlank(tids)

\* C28: a push_notification that answers 200 has added exactly one 'unread'
\* row per entry of its target list, in that order, duplicates included, and
\* reports their number and ids; one that answers anything else (400, or
\* 500 after a database error at any INSERT or at the commit) has added no
\* row; no push changes or removes a row.
C28_PushAllOrNothing ==
    [][\A p \in Procs :
          (NEnds(p) /\ nreq'[p].op = "push_notification")
          => LET targets == TargetList(nreq'[p].tid, nreq'[p].tids)
                 ids == nreq'[p].ids
             IN  /\ user_messages \subseteq user_messages'
                 /\ IF nreq'[p].code = 200
                    THEN /\ nreq'[p].count = Len(targets)
                         /\ Len(ids) = Len(targets)
                         /\ Cardinality(NewMessages) = Len(targets)
                         /\ \A i \in 1..Len(targets) :
                               \E w \in NewMessages :
                                   /\ w.id = ids[i] /\ w.user_id = targets[i]
                                   /\ w.status = "unread"
                    ELSE /\ nreq'[p].code \in {400, 500}
                         /\ NewMessages = {}]_vars

\* One push with target_user_ids "8, 8" has committed two rows for user 8.
C28_Witness ==
    \E p \in Procs :
        /\ nreq[p].op = "push_notification" /\ nreq[p].pc = "done"
        /\ nreq[p].code = 200 /\ nreq[p].count = 2
        /\ nreq[p].tids = <<"8", " 8">>
        /\ \A i \in 1..2 :
              \E m \in user_messages : m.id = nreq[p].ids[i] /\ m.user_id = "8"

\* ---- C29
\* Template request p ends in this step.
TEnds(p) == treq'[p].pc = "done" /\ treq'[p] # treq[p]

TemplateFilesPresent == \A t \in templates : t.oss_key \in template_files

\* A file leaves template storage only when no committed row names it.
RemovedFilesUnreferenced ==
    \A k \in template_files \ template_files' :
        /\ \A t \in templates : t.oss_key # k
        /\ \A t \in templates' : t.oss_key # k

\* C29: in every reachable state the oss_key of every templates row names a
\* file in template storage, and a file is removed only when the committed
\* rows no longer name it (update_template removes the old file after the
\* commit of the row that names the new one).
C29_TemplateFilesPresent ==
    [](TemplateFilesPresent) /\ [][RemovedFilesUnreferenced]_vars

\* Two update_template requests on one template ran interleaved and both
\* succeeded; the first file of the template is gone and the row names a
\* file that is stored.
C29_Witness ==
    \E p, q \in Procs :
        /\ p # q
        /\ treq[p].op = "update_template" /\ treq[q].op = "update_template"
        /\ treq[p].pc = "done" /\ treq[q].pc = "done"
        /\ treq[p].code = 200 /\ treq[q].code = 200
        /\ treq[p].tid = treq[q].tid
        /\ \E t \in TemplateRows(templates, treq[p].tid) :
              /\ t.oss_key \in {treq[p].key, treq[q].key}
              /\ t.oss_key \in template_files
        /\ 1 \notin template_files

\* ---- C30
\* C30: an update_template that ends with an error (400, 404 or 500) leaves
\* template storage without the file it wrote and with the old file of the
\* template: the step in which it fails takes the file the request wrote
\* out of storage and removes no other file.
C30_FailedUpdateLeavesStorage ==
    [][\A p \in Procs :
          ( /\ TEnds(p) /\ treq'[p].op = "update_template"
            /\ treq'[p].code # 200 )
          => LET written == IF TFree(p) THEN {} ELSE {treq[p].key}
             IN  /\ treq'[p].code \in {400, 404, 500}
                 /\ template_files' = template_files \ written]_vars
====
